---- MODULE Spec2Model ----
(***************************************************************************)
(* Model of the fnn tensor core: the overflow-checked size arithmetic of   *)
(* fnn::util (multiply, product), the N-d Tensor and the 2-d Tensor2D.     *)
(*                                                                         *)
(* std::size_t is modelled as the integers modulo 2^SizeBits and int as    *)
(* the two's-complement range of IntBits bits; every arithmetic step of    *)
(* the code is reduced the way the machine type reduces it.  The element   *)
(* type double only ever holds the value 0.0 (no operation of the classes  *)
(* writes anything else), modelled as 0.                                   *)
(***************************************************************************)
EXTENDS Integers, Sequences, FiniteSets, TLC

\* ---------------------------------------------------------------- bounds
SizeBits == 3      \* width of std::size_t in the model
IntBits == 3       \* width of int in the model
MaxRank == 3       \* longest Dims handed to Tensor / Tensor::reshape
MaxDim == 2        \* largest ordinary dimension handed to Tensor
MaxDims == 3       \* longest vector handed to util::product directly

RECURSIVE Pow2(_)
Pow2(n) == IF n = 0 THEN 1 ELSE 2 * Pow2(n - 1)

SizeMod == Pow2(SizeBits)
SizeMax == SizeMod - 1                 \* numeric_limits<size_t>::max()
IntMax == Pow2(IntBits - 1) - 1        \* numeric_limits<int>::max()
IntMin == -Pow2(IntBits - 1)           \* numeric_limits<int>::min()

SizeT == 0..SizeMax
Int_ == IntMin..IntMax

\* dimension sizes a caller hands to Tensor: the small ones and the largest
DimVals == {d \in SizeT : d <= MaxDim} \cup {SizeMax}
Shapes == UNION {[1..k -> DimVals] : k \in 0..MaxRank}

SeqsUpTo(S, n) == UNION {[1..k -> S] : k \in 0..n}

\* ------------------------------------------------ outcomes of a call
Return(v) == [outcome |-> "ok", val |-> v]
Throw(e) == [outcome |-> e, val |-> 0]

\* ------------------------------------------------ fnn::util (tensor2D.cpp)

\* std::size_t multiply(std::size_t a, std::size_t b, const char* what)
multiply_ge(a, b) ==
    IF a # 0 /\ b >= (SizeMax \div a)
    THEN Throw("length_error")
    ELSE Return((a * b) % SizeMod)

multiply_size_t(a, b) ==
    IF a # 0 /\ b > (SizeMax \div a)
    THEN Throw("length_error")
    ELSE Return((a * b) % SizeMod)

\* C++ integer division truncates toward zero; n >= 0 here (n is INT_MAX)
TruncDiv(n, d) == IF d > 0 THEN n \div d ELSE -(n \div (-d))

\* int multiply(int a, int b, const char* what)
\* `a * b` on int is undefined when the product leaves [INT_MIN, INT_MAX]:
\* the call then returns some int the build happens to produce.
multiply_int(a, b) ==
    IF a # 0 /\ b > TruncDiv(IntMax, a)
    THEN {Throw("length_error")}
    ELSE IF a * b \in Int_
         THEN {Return(a * b)}
         ELSE {Return(v) : v \in Int_}

\* std::size_t product(const std::vector<std::size_t> dims, const char* what)
\* the loop, from element i on, with running product p
RECURSIVE product_loop(_, _, _)
product_loop(dims, i, p) ==
    IF i > Len(dims)
    THEN Return(p)
    ELSE LET m == multiply_size_t(p, dims[i])
         IN  IF m.outcome # "ok" THEN m ELSE product_loop(dims, i + 1, m.val)

product_wrap(dims) ==
    LET RECURSIVE w(_, _)
        w(i, p) == IF i > Len(dims) THEN Return(p)
                   ELSE w(i + 1, (p * dims[i]) % SizeMod)
    IN  w(1, 1)

product_from_zero(dims) == product_loop(dims, 1, 0)

product_zero_first(dims) ==
    IF \E i \in DOMAIN dims : dims[i] = 0
    THEN Return(0)
    ELSE product_loop(dims, 1, 1)

product_size_t(dims) == product_loop(dims, 1, 1)

\* std::size_t product(const std::vector<int>& vec, const char* what)
RECURSIVE product_int_loop(_, _, _)
product_int_loop(vec, i, p) ==
    IF i > Len(vec)
    THEN Return(p)
    ELSE IF vec[i] < 0
         THEN Throw("invalid_argument")
         ELSE LET m == multiply_size_t(p, vec[i] % SizeMod)
              IN  IF m.outcome # "ok" THEN m
                  ELSE product_int_loop(vec, i + 1, m.val)

product_int_nocheck(vec) ==
    product_size_t([i \in DOMAIN vec |-> vec[i] % SizeMod])

product_int_validate_first(vec) ==
    IF \E i \in DOMAIN vec : vec[i] < 0
    THEN Throw("invalid_argument")
    ELSE product_size_t([i \in DOMAIN vec |-> vec[i] % SizeMod])

product_int(vec) == product_int_loop(vec, 1, 1)

\* ------------------------------------------------ state

VARIABLES
    tensor,      \* the fnn::Tensor object: live, dims_, data_
    tensor2D,    \* the fnn::Tensor2D object: live, rows_, cols_, data_
    call,        \* the call just made: op, args, outcome, ret and the steps
                 \* it executed (NoCall: none)
    layer,       \* a fnn::Layer instance and the training step it is in
    model        \* a fnn::Model instance: the layers it owns, in insertion order

vars == <<tensor, tensor2D, call, layer, model>>

\* Vector(n): n value-initialised doubles
Zeros(n) == [i \in 1..n |-> 0]

NoTensor == [live |-> FALSE, dims_ |-> <<>>, data_ |-> <<>>]
NoTensor2D == [live |-> FALSE, rows_ |-> 0, cols_ |-> 0, data_ |-> <<>>]
NoCall == [op |-> "none", args |-> <<>>, outcome |-> "ok", ret |-> <<>>,
           steps |-> <<>>]

Call(op, args, outcome, ret) ==
    [op |-> op, args |-> args, outcome |-> outcome, ret |-> ret,
     steps |-> <<>>]

\* a Layer of the given input width on which nothing has been called
FreshLayer(w) ==
    [live |-> w > 0, width |-> w, phase |-> "Idle",
     cached |-> [set |-> FALSE, input |-> <<>>],
     grad |-> 0, fresh |-> TRUE]

NoLayer == FreshLayer(0)

\* a Model that owns no layer
NoModel == [layers |-> <<>>]

Init ==
    /\ tensor = NoTensor
    /\ tensor2D = NoTensor2D
    /\ call = NoCall
    /\ layer = NoLayer
    /\ model = NoModel

\* ------------------------------------------------ fnn::Tensor (tensor.cpp)

\* Tensor::Tensor(Dims dims) : dims_(std::move(dims))
\* The outcome, the object and the statements executed, in order: dims_ is
\* initialised, product runs (and may throw, which ends the constructor
\* without an object), then data_.resize(count) value-initialises count
\* elements.
Tensor_ctor_noresize(dims) ==
    [outcome |-> "ok",
     t |-> [live |-> TRUE, dims_ |-> dims, data_ |-> <<>>],
     steps |-> <<"dims_">>]

Tensor_ctor_alloc_first(dims) ==
    LET count == product_size_t(dims)
    IN  IF count.outcome # "ok"
        THEN [outcome |-> count.outcome, t |-> NoTensor,
              steps |-> <<"dims_", "resize", "product">>]
        ELSE [outcome |-> "ok",
              t |-> [live |-> TRUE, dims_ |-> dims,
                     data_ |-> Zeros(count.val)],
              steps |-> <<"dims_", "resize", "product">>]

Tensor_ctor(dims) ==
    LET count == product_size_t(dims)
    IN  IF count.outcome # "ok"
        THEN [outcome |-> count.outcome, t |-> NoTensor,
              steps |-> <<"dims_", "product">>]
        ELSE [outcome |-> "ok",
              t |-> [live |-> TRUE, dims_ |-> dims,
                     data_ |-> Zeros(count.val)],
              steps |-> <<"dims_", "product", "resize">>]

TensorCtor(dims) ==
    /\ ~tensor.live
    /\ call = NoCall
    /\ LET r == Tensor_ctor(dims)
       IN  /\ tensor' = r.t
           /\ call' = [Call("Tensor", dims, r.outcome, <<>>)
                          EXCEPT !.steps = r.steps]
    /\ UNCHANGED <<tensor2D, layer, model>>

\* size_t Tensor::numel()
numel_rank(t) == Return(Len(t.dims_))

numel_first(t) == Return(IF t.dims_ = <<>> THEN 1 ELSE t.dims_[1])

numel(t) == product_size_t(t.dims_)

TensorNumel ==
    /\ tensor.live
    /\ call = NoCall
    /\ LET n == numel(tensor)
       IN  call' = Call("numel", <<>>, n.outcome,
                        IF n.outcome = "ok" THEN <<n.val>> ELSE <<>>)
    /\ UNCHANGED <<tensor, tensor2D, layer, model>>

\* Dims Tensor::shape()
shape(t) == t.dims_

TensorShape ==
    /\ tensor.live
    /\ call = NoCall
    /\ call' = Call("shape", <<>>, "ok", shape(tensor))
    /\ UNCHANGED <<tensor, tensor2D, layer, model>>

\* shape() is declared `Dims shape()`: the caller receives a Dims of its own.
\* (Declared `Dims&` it would hand out dims_ itself.)
shape_return_type_ref == "Dims&"

shape_return_type == "Dims"

\* what one write makes of a Dims r: an element assigned, or one pushed back
Written(r) ==
    ({[r EXCEPT ![i] = v] : i \in DOMAIN r, v \in DimVals}
       \cup {Append(r, v) : v \in DimVals}) \ {r}

\* the caller writes to the Dims that shape() returned to it, making it d
CallerWritesShape(d) ==
    /\ call.op = "shape" /\ call.outcome = "ok"
    /\ d \in Written(call.ret)
    /\ call' = [call EXCEPT !.op = "shape written", !.ret = d]
    /\ tensor' = IF shape_return_type = "Dims&"
                 THEN [tensor EXCEPT !.dims_ = d]
                 ELSE tensor
    /\ UNCHANGED <<tensor2D, layer, model>>

\* void Tensor::reshape(Dims dims): the outcome and the dims_ afterwards
Tensor_reshape_unchecked(t, dims) ==
    [outcome |-> "ok", dims_ |-> dims]

Tensor_reshape_early(t, dims) ==
    LET old_count == numel(t)
        new_count == product_size_t(dims)
    IN  IF old_count.outcome # "ok"
        THEN [outcome |-> old_count.outcome, dims_ |-> t.dims_]
        ELSE IF new_count.outcome # "ok"
        THEN [outcome |-> new_count.outcome, dims_ |-> t.dims_]
        ELSE IF new_count.val # old_count.val
        THEN [outcome |-> "invalid_argument", dims_ |-> dims]
        ELSE [outcome |-> "ok", dims_ |-> dims]

Tensor_reshape_inverted(t, dims) ==
    LET old_count == numel(t)
        new_count == product_size_t(dims)
    IN  IF old_count.outcome # "ok"
        THEN [outcome |-> old_count.outcome, dims_ |-> t.dims_]
        ELSE IF new_count.outcome # "ok"
        THEN [outcome |-> new_count.outcome, dims_ |-> t.dims_]
        ELSE IF new_count.val = old_count.val
        THEN [outcome |-> "invalid_argument", dims_ |-> t.dims_]
        ELSE [outcome |-> "ok", dims_ |-> dims]

Tensor_reshape_wrap(t, dims) ==
    LET old_count == product_wrap(t.dims_)
        new_count == product_wrap(dims)
    IN  IF new_count.val # old_count.val
        THEN [outcome |-> "invalid_argument", dims_ |-> t.dims_]
        ELSE [outcome |-> "ok", dims_ |-> dims]

Tensor_reshape_squeeze(t, dims) ==
    LET old_count == numel(t)
        new_count == product_size_t(dims)
    IN  IF old_count.outcome # "ok"
        THEN [outcome |-> old_count.outcome, dims_ |-> t.dims_]
        ELSE IF new_count.outcome # "ok"
        THEN [outcome |-> new_count.outcome, dims_ |-> t.dims_]
        ELSE IF new_count.val # old_count.val
        THEN [outcome |-> "invalid_argument", dims_ |-> t.dims_]
        ELSE [outcome |-> "ok", dims_ |-> SelectSeq(dims, LAMBDA x : x # 1)]

Tensor_reshape(t, dims) ==
    LET old_count == numel(t)
        new_count == product_size_t(dims)
    IN  IF old_count.outcome # "ok"
        THEN [outcome |-> old_count.outcome, dims_ |-> t.dims_]
        ELSE IF new_count.outcome # "ok"
        THEN [outcome |-> new_count.outcome, dims_ |-> t.dims_]
        ELSE IF new_count.val # old_count.val
        THEN [outcome |-> "invalid_argument", dims_ |-> t.dims_]
        ELSE [outcome |-> "ok", dims_ |-> dims]

TensorReshape(dims) ==
    /\ tensor.live
    /\ call = NoCall
    /\ LET r == Tensor_reshape(tensor, dims)
       IN  /\ tensor' = [tensor EXCEPT !.dims_ = r.dims_]
           /\ call' = Call("reshape", dims, r.outcome, <<>>)
    /\ UNCHANGED <<tensor2D, layer, model>>

\* the caller takes the result (or catches the exception) of the last call
TakeResult ==
    /\ call # NoCall
    /\ call' = NoCall
    /\ UNCHANGED <<tensor, tensor2D, layer, model>>

Next ==
    \/ \E dims \in Shapes : TensorCtor(dims)
    \/ TensorNumel
    \/ TensorShape
    \/ \E dims \in Shapes : TensorReshape(dims)
    \/ \E d \in (IF call.op = "shape" THEN Written(call.ret) ELSE {}) :
          CallerWritesShape(d)
    \/ TakeResult

Spec == Init /\ [][Next]_vars

\* ------------------------------------------------ fnn::Tensor2D (tensor2D.cpp)

\* Tensor2D::Tensor2D(std::size_t rows, std::size_t cols)
\*     : rows_(rows), cols_(cols), data_(rows * cols)
\* rows * cols is size_t arithmetic: it is reduced modulo 2^SizeBits.
Tensor2DCtor_sum(rows, cols) ==
    /\ ~tensor2D.live
    /\ call = NoCall
    /\ tensor2D' = [live |-> TRUE, rows_ |-> rows, cols_ |-> cols,
                    data_ |-> Zeros((rows + cols) % SizeMod)]
    /\ call' = Call("Tensor2D", <<rows, cols>>, "ok", <<>>)
    /\ UNCHANGED <<tensor, layer, model>>

Tensor2DCtor(rows, cols) ==
    /\ ~tensor2D.live
    /\ call = NoCall
    /\ tensor2D' = [live |-> TRUE, rows_ |-> rows, cols_ |-> cols,
                    data_ |-> Zeros((rows * cols) % SizeMod)]
    /\ call' = Call("Tensor2D", <<rows, cols>>, "ok", <<>>)
    /\ UNCHANGED <<tensor, layer, model>>

\* void Tensor2D::zero_fill()
zero_fill_clear(m) == [m EXCEPT !.data_ = <<>>]

zero_fill(m) == [m EXCEPT !.data_ = [i \in DOMAIN m.data_ |-> 0]]

Tensor2DZeroFill ==
    /\ tensor2D.live
    /\ call = NoCall
    /\ tensor2D' = zero_fill(tensor2D)
    /\ call' = Call("zero_fill", <<>>, "ok", <<>>)
    /\ UNCHANGED <<tensor, layer, model>>

\* void Tensor2D::reshape(std::size_t new_rows, std::size_t new_cols):
\* the outcome and the object afterwards
Tensor2D_reshape_early(m, new_rows, new_cols) ==
    IF (m.rows_ * m.cols_) % SizeMod # (new_rows * new_cols) % SizeMod
    THEN [outcome |-> "invalid_argument",
          m |-> [m EXCEPT !.rows_ = new_rows]]
    ELSE [outcome |-> "ok",
          m |-> [m EXCEPT !.rows_ = new_rows, !.cols_ = new_cols]]

Tensor2D_reshape(m, new_rows, new_cols) ==
    IF (m.rows_ * m.cols_) % SizeMod # (new_rows * new_cols) % SizeMod
    THEN [outcome |-> "invalid_argument", m |-> m]
    ELSE [outcome |-> "ok",
          m |-> [m EXCEPT !.rows_ = new_rows, !.cols_ = new_cols]]

Tensor2DReshape(new_rows, new_cols) ==
    /\ tensor2D.live
    /\ call = NoCall
    /\ LET r == Tensor2D_reshape(tensor2D, new_rows, new_cols)
       IN  /\ tensor2D' = r.m
           /\ call' = Call("reshape2D", <<new_rows, new_cols>>, r.outcome, <<>>)
    /\ UNCHANGED <<tensor, layer, model>>

\* Shape Tensor2D::shape() const noexcept: the pair {rows_, cols_}
Tensor2D_shape(m) == <<m.rows_, m.cols_>>

Tensor2DShape ==
    /\ tensor2D.live
    /\ call = NoCall
    /\ call' = Call("shape2D", <<>>, "ok", Tensor2D_shape(tensor2D))
    /\ UNCHANGED <<tensor, tensor2D, layer, model>>

Next2D ==
    \/ \E rows \in SizeT, cols \in SizeT : Tensor2DCtor(rows, cols)
    \/ Tensor2DZeroFill
    \/ \E new_rows \in SizeT, new_cols \in SizeT :
          Tensor2DReshape(new_rows, new_cols)
    \/ Tensor2DShape
    \/ TakeResult

Spec2D == Init /\ [][Next2D]_vars

\* ------------------------------------------------ calls into fnn::util
\* A call of a free function starts pending with its arguments and is then
\* evaluated once.

RetOf(r) == IF r.outcome = "ok" THEN <<r.val>> ELSE <<>>

Pending(op, args) == Call(op, args, "pending", <<>>)

InitUtil ==
    /\ tensor = NoTensor
    /\ tensor2D = NoTensor2D
    /\ layer = NoLayer
    /\ model = NoModel
    /\ \/ \E a \in SizeT, b \in SizeT :
             call = Pending("multiply_size_t", <<a, b>>)
       \/ \E a \in Int_, b \in Int_ :
             call = Pending("multiply_int", <<a, b>>)
       \/ \E dims \in SeqsUpTo(SizeT, MaxDims) :
             call = Pending("product_size_t", dims)
       \/ \E vec \in SeqsUpTo(Int_, MaxDims) :
             call = Pending("product_int", vec)

CallMultiplySizeT ==
    /\ call.op = "multiply_size_t" /\ call.outcome = "pending"
    /\ LET r == multiply_size_t(call.args[1], call.args[2])
       IN  call' = Call(call.op, call.args, r.outcome, RetOf(r))
    /\ UNCHANGED <<tensor, tensor2D, layer, model>>

CallMultiplyInt ==
    /\ call.op = "multiply_int" /\ call.outcome = "pending"
    /\ \E r \in multiply_int(call.args[1], call.args[2]) :
          call' = Call(call.op, call.args, r.outcome, RetOf(r))
    /\ UNCHANGED <<tensor, tensor2D, layer, model>>

CallProductSizeT ==
    /\ call.op = "product_size_t" /\ call.outcome = "pending"
    /\ LET r == product_size_t(call.args)
       IN  call' = Call(call.op, call.args, r.outcome, RetOf(r))
    /\ UNCHANGED <<tensor, tensor2D, layer, model>>

CallProductInt ==
    /\ call.op = "product_int" /\ call.outcome = "pending"
    /\ LET r == product_int(call.args)
       IN  call' = Call(call.op, call.args, r.outcome, RetOf(r))
    /\ UNCHANGED <<tensor, tensor2D, layer, model>>

NextUtil ==
    \/ CallMultiplySizeT
    \/ CallMultiplyInt
    \/ CallProductSizeT
    \/ CallProductInt

SpecUtil == InitUtil /\ [][NextUtil]_vars

\* ------------------------------------------------ reshape there and back
\* A caller constructs Tensor t(d) and runs t.reshape(d2); t.reshape(d);
\* an exception ends the sequence.  call.args holds d and d2, call.ret the
\* tensor as constructed, call.steps the outcome of each reshape made.

InitRoundTrip ==
    /\ tensor2D = NoTensor2D
    /\ layer = NoLayer
    /\ model = NoModel
    /\ \E d \in Shapes, d2 \in Shapes :
          /\ Tensor_ctor(d).outcome = "ok"
          /\ tensor = Tensor_ctor(d).t
          /\ call = [Pending("round_trip", <<d, d2>>) EXCEPT !.ret = <<tensor>>]

ReshapeThere ==
    /\ call.op = "round_trip" /\ call.outcome = "pending"
    /\ call.steps = <<>>
    /\ LET r == Tensor_reshape(tensor, call.args[2])
       IN  /\ tensor' = [tensor EXCEPT !.dims_ = r.dims_]
           /\ call' = [call EXCEPT
                          !.steps = <<r.outcome>>,
                          !.outcome = IF r.outcome = "ok" THEN "pending"
                                      ELSE r.outcome]
    /\ UNCHANGED <<tensor2D, layer, model>>

ReshapeBack ==
    /\ call.op = "round_trip" /\ call.outcome = "pending"
    /\ Len(call.steps) = 1
    /\ LET r == Tensor_reshape(tensor, call.args[1])
       IN  /\ tensor' = [tensor EXCEPT !.dims_ = r.dims_]
           /\ call' = [call EXCEPT !.steps = Append(@, r.outcome),
                                   !.outcome = r.outcome]
    /\ UNCHANGED <<tensor2D, layer, model>>

NextRoundTrip ==
    \/ ReshapeThere
    \/ ReshapeBack

SpecRoundTrip == InitRoundTrip /\ [][NextRoundTrip]_vars

\* ------------------------------------------------ fnn::Layer (layer.hpp)
\* layer.hpp declares forward and backward as pure virtuals; the behaviour of
\* an implementing layer and of the training step around it is taken from
\* the specification's sections 4.6 and 4.7: forward caches its input for the
\* next backward, backward consumes the cache and accumulates the parameter
\* gradient, and a training step runs
\* Idle -> Forward -> LossComputed -> Backward -> ParametersUpdated -> Idle.

MaxWidth == 2
MaxGrad == 2

Scalars == {0, 1}
Vectors == SeqsUpTo(Scalars, MaxWidth)

Phases == {"Idle", "Forward", "LossComputed", "Backward", "ParametersUpdated"}

RECURSIVE Dot(_, _)
Dot(a, b) ==
    IF a = <<>> \/ b = <<>> THEN 0
    ELSE Head(a) * Head(b) + Dot(Tail(a), Tail(b))

Failed(e, l) == [outcome |-> e, ret |-> <<>>, l |-> l]

\* Vector forward(const Vector& input)
Layer_forward_overwrite(l, input) ==
    IF Len(input) # l.width
    THEN Failed("shape_error", l)
    ELSE [outcome |-> "ok", ret |-> input,
          l |-> [l EXCEPT !.phase = "Forward",
                          !.cached = [set |-> TRUE, input |-> input]]]

Layer_forward(l, input) ==
    IF l.phase # "Idle"
    THEN Failed("sequencing_error", l)
    ELSE IF Len(input) # l.width
    THEN Failed("shape_error", l)
    ELSE [outcome |-> "ok", ret |-> input,
          l |-> [l EXCEPT !.phase = "Forward",
                          !.cached = [set |-> TRUE, input |-> input]]]

\* Vector backward(const Vector& d_output)
Layer_backward_nocheck(l, d_output) ==
    IF Len(d_output) # l.width
    THEN Failed("shape_error", l)
    ELSE [outcome |-> "ok", ret |-> d_output,
          l |-> [l EXCEPT !.phase = "Backward",
                          !.cached = [set |-> FALSE, input |-> <<>>],
                          !.grad = @ + Dot(d_output, l.cached.input)]]

Layer_backward(l, d_output) ==
    IF l.phase # "LossComputed" \/ ~l.cached.set
    THEN Failed("sequencing_error", l)
    ELSE IF Len(d_output) # l.width
    THEN Failed("shape_error", l)
    ELSE [outcome |-> "ok", ret |-> d_output,
          l |-> [l EXCEPT !.phase = "Backward",
                          !.cached = [set |-> FALSE, input |-> <<>>],
                          !.grad = @ + Dot(d_output, l.cached.input)]]

InitLayer ==
    /\ tensor = NoTensor
    /\ tensor2D = NoTensor2D
    /\ call = NoCall
    /\ \E w \in 1..MaxWidth : layer = FreshLayer(w)
    /\ model = NoModel

LayerForward(input) ==
    /\ call = NoCall
    /\ LET r == Layer_forward(layer, input)
       IN  /\ layer' = [r.l EXCEPT !.fresh = FALSE]
           /\ call' = Call("forward", input, r.outcome, r.ret)
    /\ UNCHANGED <<tensor, tensor2D, model>>

LayerBackward(d_output) ==
    /\ call = NoCall
    /\ LET r == Layer_backward(layer, d_output)
       IN  /\ r.l.grad <= MaxGrad
           /\ layer' = r.l
           /\ call' = Call("backward", d_output, r.outcome, r.ret)
    /\ UNCHANGED <<tensor, tensor2D, model>>

\* the training loop's own steps
ComputeLoss ==
    /\ call = NoCall
    /\ layer.phase = "Forward"
    /\ layer' = [layer EXCEPT !.phase = "LossComputed"]
    /\ UNCHANGED <<tensor, tensor2D, call, model>>

UpdateParameters ==
    /\ call = NoCall
    /\ layer.phase = "Backward"
    /\ layer' = [layer EXCEPT !.phase = "ParametersUpdated"]
    /\ UNCHANGED <<tensor, tensor2D, call, model>>

EndStep ==
    /\ call = NoCall
    /\ layer.phase = "ParametersUpdated"
    /\ layer' = [layer EXCEPT !.phase = "Idle"]
    /\ UNCHANGED <<tensor, tensor2D, call, model>>

\* zeroing the gradients before a batch; a step under way is given up
ResetGradients ==
    /\ call = NoCall
    /\ layer.phase \in {"Idle", "Forward", "LossComputed"}
    /\ layer' = [layer EXCEPT !.phase = "Idle",
                              !.cached = [set |-> FALSE, input |-> <<>>],
                              !.grad = 0]
    /\ UNCHANGED <<tensor, tensor2D, call, model>>

NextLayer ==
    \/ \E input \in Vectors : LayerForward(input)
    \/ \E d_output \in Vectors : LayerBackward(d_output)
    \/ ComputeLoss
    \/ UpdateParameters
    \/ EndStep
    \/ ResetGradients
    \/ TakeResult

SpecLayer == InitLayer /\ [][NextLayer]_vars

\* ------------------------------------------------ fnn::Model (model.hpp)
\* model.hpp declares predict as a pure virtual; the behaviour of a model and
\* of the training loop's backward pass over its layers is taken from the
\* specification's sections 3 and 4.7. A layer of the model is an affine
\* layer: it keeps a Layer's state and maps x to weight * x + bias, element
\* by element.

MaxLayers == 2

Weights == {1, 2}
Biases == {0, 1}

ModelLayer(w, weight, bias) ==
    [state |-> FreshLayer(w), weight |-> weight, bias |-> bias]

ModelLayers ==
    {ModelLayer(w, weight, bias) :
        w \in 1..MaxWidth, weight \in Weights, bias \in Biases}

Affine(ml, x) == [i \in DOMAIN x |-> ml.weight * x[i] + ml.bias]

Scaled(ml, d) == [i \in DOMAIN d |-> ml.weight * d[i]]

InOrder(n) == [i \in 1..n |-> i]
Reversed(n) == [i \in 1..n |-> n + 1 - i]

\* forward through the layers named by order, from its k-th entry on, with x
\* the running value and steps the calls made so far
RECURSIVE forward_over(_, _, _, _, _)
forward_over(ls, order, k, x, steps) ==
    IF k > Len(order)
    THEN [outcome |-> "ok", ret |-> x, layers |-> ls, steps |-> steps]
    ELSE LET i == order[k]
             r == Layer_forward(ls[i].state, x)
             ls2 == [ls EXCEPT ![i].state = r.l]
             st == Append(steps, <<"forward", i>>)
         IN  IF r.outcome # "ok"
             THEN [outcome |-> r.outcome, ret |-> <<>>, layers |-> ls2,
                   steps |-> st]
             ELSE forward_over(ls2, order, k + 1, Affine(ls[i], r.ret), st)

\* Vector predict(const Vector& input)
Model_predict_reversed(m, input) ==
    forward_over(m.layers, Reversed(Len(m.layers)), 1, input, <<>>)

Model_predict(m, input) ==
    forward_over(m.layers, InOrder(Len(m.layers)), 1, input, <<>>)

\* the training loop's backward pass: each layer's returned d_input is the
\* next (upstream) layer's d_output
RECURSIVE backward_over(_, _, _, _, _)
backward_over(ls, order, k, d, steps) ==
    IF k > Len(order)
    THEN [outcome |-> "ok", ret |-> d, layers |-> ls, steps |-> steps]
    ELSE LET i == order[k]
             r == Layer_backward(ls[i].state, d)
             ls2 == [ls EXCEPT ![i].state = r.l]
             st == Append(steps, <<"backward", i>>)
         IN  IF r.outcome # "ok"
             THEN [outcome |-> r.outcome, ret |-> <<>>, layers |-> ls2,
                   steps |-> st]
             ELSE backward_over(ls2, order, k + 1, Scaled(ls[i], r.ret), st)

backward_pass(m, d_output) ==
    backward_over(m.layers, Reversed(Len(m.layers)), 1, d_output, <<>>)

InitModel ==
    /\ tensor = NoTensor
    /\ tensor2D = NoTensor2D
    /\ call = NoCall
    /\ layer = NoLayer
    /\ \E ls \in SeqsUpTo(ModelLayers, MaxLayers) : model = [layers |-> ls]

ModelPredict(input) ==
    /\ call = NoCall
    /\ LET r == Model_predict(model, input)
       IN  /\ model' = [model EXCEPT !.layers = r.layers]
           /\ call' = [Call("predict", input, r.outcome, r.ret)
                          EXCEPT !.steps = r.steps]
    /\ UNCHANGED <<tensor, tensor2D, layer>>

ModelComputeLoss ==
    /\ call = NoCall
    /\ model.layers # <<>>
    /\ \A i \in DOMAIN model.layers : model.layers[i].state.phase = "Forward"
    /\ model' = [model EXCEPT !.layers =
                    [i \in DOMAIN @ |->
                        [@[i] EXCEPT !.state.phase = "LossComputed"]]]
    /\ UNCHANGED <<tensor, tensor2D, call, layer>>

ModelBackward(d_output) ==
    /\ call = NoCall
    /\ LET r == backward_pass(model, d_output)
       IN  /\ model' = [model EXCEPT !.layers = r.layers]
           /\ call' = [Call("backward_pass", d_output, r.outcome, r.ret)
                          EXCEPT !.steps = r.steps]
    /\ UNCHANGED <<tensor, tensor2D, layer>>

\* the training loop ends the step and zeroes the gradients for the next one
ModelEndStep ==
    /\ call = NoCall
    /\ model' = [model EXCEPT !.layers =
                    [i \in DOMAIN @ |->
                        [@[i] EXCEPT !.state.phase = "Idle",
                                     !.state.cached =
                                         [set |-> FALSE, input |-> <<>>],
                                     !.state.grad = 0]]]
    /\ model' # model
    /\ UNCHANGED <<tensor, tensor2D, call, layer>>

NextModel ==
    \/ \E input \in Vectors : ModelPredict(input)
    \/ ModelComputeLoss
    \/ \E d_output \in Vectors : ModelBackward(d_output)
    \/ ModelEndStep
    \/ TakeResult

SpecModel == InitModel /\ [][NextModel]_vars

\* ------------------------------------------------ properties

\* the product of a sequence of sizes over the (unbounded) integers
RECURSIVE MathProduct(_)
MathProduct(s) == IF s = <<>> THEN 1 ELSE Head(s) * MathProduct(Tail(s))

\* util::product(d) has a value: folding d left to right, no running product
\* exceeds SIZE_MAX.  (A sequence on which it throws has no product to compare.)
Fits(d) == \A k \in 1..Len(d) : MathProduct(SubSeq(d, 1, k)) <= SizeMax

\* C1: whatever calls were made on a Tensor (construction, accepted and
\* rejected reshape, numel, shape), the length of data_ equals the product of
\* the dimensions held in dims_.
C1_BufferLenIsProduct ==
    tensor.live => Len(tensor.data_) = MathProduct(tensor.dims_)

C1_Witness ==
    /\ tensor.live
    /\ call.op = "reshape" /\ call.outcome = "ok"
    /\ Len(tensor.dims_) = 3 /\ tensor.dims_[1] # tensor.dims_[2]
    /\ Len(tensor.data_) > 1

\* C2: for a shape d whose product is computed without overflow, Tensor(d)
\* is constructed and numel() on it returns exactly the product of d.
C2_NumelAfterCtor ==
    (call.op = "Tensor" /\ Fits(call.args))
    => (/\ call.outcome = "ok" /\ tensor.live
        /\ numel(tensor) = Return(MathProduct(call.args)))

C2_Witness ==
    /\ call.op = "Tensor" /\ call.outcome = "ok" /\ tensor.live
    /\ Len(call.args) >= 2
    /\ MathProduct(call.args) > 2
    /\ numel(tensor).val = MathProduct(call.args)

\* C3: reshape(d) with product(d) (the value util::product has for d)
\* different from the product of the current shape fails with
\* invalid-argument, and dims_ (so shape() and numel()) and data_ (length and
\* contents) are what they were before the call.
C3_RejectedReshape ==
    [][(/\ call'.op = "reshape"
        /\ Fits(call'.args)
        /\ MathProduct(call'.args) # MathProduct(tensor.dims_))
       => (/\ call'.outcome = "invalid_argument"
           /\ tensor'.dims_ = tensor.dims_
           /\ numel(tensor') = numel(tensor)
           /\ tensor'.data_ = tensor.data_)]_vars

C3_Witness ==
    /\ call.op = "reshape" /\ call.outcome = "invalid_argument"
    /\ Fits(call.args)
    /\ MathProduct(call.args) # MathProduct(tensor.dims_)
    /\ Len(call.args) >= 2 /\ Len(tensor.data_) > 1

\* C4: reshape(d) with product(d) (the value util::product has for d) equal
\* to the product of the current shape succeeds, dims_ becomes d, and data_
\* keeps its length and its elements in the same order.
C4_AcceptedReshape ==
    [][(/\ call'.op = "reshape"
        /\ Fits(call'.args)
        /\ MathProduct(call'.args) = MathProduct(tensor.dims_))
       => (/\ call'.outcome = "ok"
           /\ tensor'.dims_ = call'.args
           /\ tensor'.data_ = tensor.data_)]_vars

C4_Witness ==
    /\ call.op = "reshape" /\ call.outcome = "ok"
    /\ tensor.dims_ = call.args
    /\ Len(call.args) = 2 /\ call.args[1] > call.args[2]
    /\ Len(tensor.data_) > 1

\* C5: product over size_t dimensions whose true product exceeds SIZE_MAX
\* fails with length_error; it returns no value (so no wrapped value).
C5_ProductOverflowFails ==
    (/\ call.op = "product_size_t" /\ call.outcome # "pending"
     /\ MathProduct(call.args) > SizeMax)
    => (call.outcome = "length_error" /\ call.ret = <<>>)

\* the model's [2^(w/2), 2^(w/2)]: two factors, true product a multiple of 2^w
C5_Witness ==
    /\ call.op = "product_size_t" /\ call.outcome = "length_error"
    /\ Len(call.args) = 2
    /\ MathProduct(call.args) > 0
    /\ MathProduct(call.args) % SizeMod = 0

\* C6: multiply(size_t a, size_t b) fails with length_error exactly when
\* a != 0 and b > max / a, which is exactly when a*b > max; otherwise it
\* returns the exact product a*b.
C6_MultiplySizeT ==
    (call.op = "multiply_size_t" /\ call.outcome # "pending")
    => LET a == call.args[1]
           b == call.args[2]
       IN  /\ (call.outcome = "length_error") <=> (a # 0 /\ b > SizeMax \div a)
           /\ (a # 0 /\ b > SizeMax \div a) <=> (a * b > SizeMax)
           /\ (call.outcome # "length_error")
                 => (call.outcome = "ok" /\ call.ret = <<a * b>>)

\* the smallest overflow: a*b = max + 1
C6_Witness ==
    /\ call.op = "multiply_size_t" /\ call.outcome = "length_error"
    /\ call.args[1] * call.args[2] = SizeMax + 1

\* C7: multiply(int a, int b) either fails with length_error or returns the
\* exact product a*b, negative operands included.
C7_MultiplyIntExact ==
    (call.op = "multiply_int" /\ call.outcome # "pending")
    => \/ call.outcome = "length_error"
       \/ call.outcome = "ok" /\ call.ret = <<call.args[1] * call.args[2]>>

\* C8: whatever calls were made on a Tensor2D, the length of data_ equals the
\* unwrapped product rows_ * cols_.
C8_BufferLenIsRowsTimesCols ==
    tensor2D.live => Len(tensor2D.data_) = tensor2D.rows_ * tensor2D.cols_

\* C9: Tensor2D(rows, cols) with rows*cols > SIZE_MAX fails with an overflow
\* error and leaves no matrix behind.
C9_CtorOverflowFails ==
    (call.op = "Tensor2D" /\ call.args[1] * call.args[2] > SizeMax)
    => (call.outcome = "length_error" /\ ~tensor2D.live)

\* C10: Tensor2D::reshape never changes data_ (length or elements), ends ok
\* or with invalid-argument, and when it is rejected rows_ and cols_ keep
\* their values.
C10_Reshape2DMetadataOnly ==
    [][(call'.op = "reshape2D")
       => (/\ tensor2D'.data_ = tensor2D.data_
           /\ call'.outcome \in {"ok", "invalid_argument"}
           /\ (call'.outcome = "invalid_argument"
                 => (/\ tensor2D'.rows_ = tensor2D.rows_
                     /\ tensor2D'.cols_ = tensor2D.cols_)))]_vars

C10_Witness ==
    /\ call.op = "reshape2D" /\ call.outcome = "invalid_argument"
    /\ call.args # <<tensor2D.rows_, tensor2D.cols_>>
    /\ Len(tensor2D.data_) > 1

\* C11: after Tensor2D::zero_fill() every element of data_ is 0, rows_, cols_
\* and the length of data_ are what they were, and a second zero_fill would
\* leave the object as it is.
C11_ZeroFill ==
    [][(call'.op = "zero_fill")
       => (/\ call'.outcome = "ok"
           /\ \A i \in DOMAIN tensor2D'.data_ : tensor2D'.data_[i] = 0
           /\ Len(tensor2D'.data_) = Len(tensor2D.data_)
           /\ tensor2D'.rows_ = tensor2D.rows_
           /\ tensor2D'.cols_ = tensor2D.cols_
           /\ zero_fill(tensor2D') = tensor2D')]_vars

C11_Witness ==
    /\ call.op = "zero_fill" /\ call.outcome = "ok"
    /\ tensor2D.rows_ > 1 /\ tensor2D.cols_ > 1
    /\ Len(tensor2D.data_) = tensor2D.rows_ * tensor2D.cols_
    /\ \A i \in DOMAIN tensor2D.data_ : tensor2D.data_[i] = 0

\* C12: for dims whose product is computed without overflow, Tensor(dims) is
\* constructed, shape() returns dims, and data_ holds exactly product(dims)
\* elements, all 0.
C12_CtorShapeAndZeros ==
    (call.op = "Tensor" /\ Fits(call.args))
    => (/\ call.outcome = "ok" /\ tensor.live
        /\ shape(tensor) = call.args
        /\ Len(tensor.data_) = MathProduct(call.args)
        /\ \A i \in DOMAIN tensor.data_ : tensor.data_[i] = 0)

C12_Witness ==
    /\ call.op = "Tensor" /\ call.outcome = "ok" /\ tensor.live
    /\ Len(call.args) = 3 /\ shape(tensor) = call.args
    /\ Len(tensor.data_) = 4
    /\ \A i \in DOMAIN tensor.data_ : tensor.data_[i] = 0

\* C13: for rows, cols whose product fits size_t, Tensor2D(rows, cols) yields
\* a matrix whose shape() is the pair (rows, cols) and whose data_ holds
\* rows*cols elements, all 0.
C13_Ctor2DShapeAndZeros ==
    (call.op = "Tensor2D" /\ call.args[1] * call.args[2] <= SizeMax)
    => (/\ call.outcome = "ok" /\ tensor2D.live
        /\ Tensor2D_shape(tensor2D) = call.args
        /\ Len(tensor2D.data_) = call.args[1] * call.args[2]
        /\ \A i \in DOMAIN tensor2D.data_ : tensor2D.data_[i] = 0)

C13_Witness ==
    /\ call.op = "Tensor2D" /\ call.outcome = "ok" /\ tensor2D.live
    /\ call.args[1] > 1 /\ call.args[2] > call.args[1]
    /\ call.args[1] * call.args[2] <= SizeMax
    /\ Tensor2D_shape(tensor2D) = call.args
    /\ Len(tensor2D.data_) = call.args[1] * call.args[2]

\* C14: at every moment of a Tensor's life numel() is the product of the dims
\* shape() returns at that moment (so is every value a numel() call
\* returned), and no call, accepted or rejected reshape included, changes
\* it: it stays the numel() of the freshly constructed tensor.
C14_NumelFollowsShape ==
    /\ [](tensor.live
            => /\ numel(tensor) = Return(MathProduct(shape(tensor)))
               /\ (call.op = "numel"
                     => (/\ call.outcome = "ok"
                         /\ call.ret = <<MathProduct(shape(tensor))>>)))
    /\ [][(tensor.live /\ tensor'.live)
            => numel(tensor') = numel(tensor)]_vars

C14_Witness ==
    /\ call.op = "reshape" /\ call.outcome = "ok" /\ tensor.live
    /\ Len(call.args) = 3 /\ shape(tensor) = call.args
    /\ call.args[1] < call.args[3]
    /\ numel(tensor) = Return(MathProduct(call.args))
    /\ numel(tensor).val = Len(tensor.data_)
    /\ numel(tensor).val > 1

\* C15: shape() returns a copy the caller owns: when the caller modifies the
\* returned Dims, the tensor's dims_ and data_ stay as they are, so later
\* shape() and numel() calls return what they returned before; and the calls
\* shape() and numel() themselves leave dims_ and data_ unchanged.
C15_ShapeIsACopy ==
    [][/\ (call.op = "shape" /\ call'.op = "shape written")
          => (/\ call'.ret # call.ret
              /\ tensor' = tensor
              /\ shape(tensor') = shape(tensor)
              /\ numel(tensor') = numel(tensor))
       /\ (call'.op \in {"shape", "numel"})
          => tensor' = tensor]_vars

C15_Witness ==
    /\ call.op = "shape written" /\ tensor.live
    /\ call.ret # shape(tensor)
    /\ Len(call.ret) = Len(shape(tensor)) /\ Len(call.ret) >= 2
    /\ MathProduct(call.ret) # MathProduct(shape(tensor))

\* C16: product over a sequence of signed int dimensions never returns a value
\* when at least one dimension is negative, wherever it stands and whatever
\* the other dimensions are (zeros included): the call ends in a failure.
C16_NegativeDimFails ==
    (/\ call.op = "product_int" /\ call.outcome # "pending"
     /\ \E i \in DOMAIN call.args : call.args[i] < 0)
    => (call.outcome \in {"invalid_argument", "length_error"} /\ call.ret = <<>>)

\* a negative dimension that follows a zero is still refused
C16_Witness ==
    /\ call.op = "product_int" /\ call.outcome = "invalid_argument"
    /\ Len(call.args) >= 2
    /\ call.args[1] = 0
    /\ call.args[Len(call.args)] < 0

\* C17: product folds the checked multiplication starting from 1: the
\* product of the empty sequence is 1 and the product of a single dimension d
\* is d, so Tensor({}) succeeds and a rank-0 Tensor has numel() == 1 and a
\* buffer of exactly one element.
C17_ProductStartsAtOne ==
    /\ product_size_t(<<>>) = Return(1)
    /\ \A d \in SizeT : product_size_t(<<d>>) = Return(d)
    /\ (call.op = "Tensor" /\ call.args = <<>>)
       => (call.outcome = "ok" /\ tensor.live /\ tensor.dims_ = <<>>)
    /\ (tensor.live /\ tensor.dims_ = <<>>)
       => (numel(tensor) = Return(1) /\ Len(tensor.data_) = 1)

\* Tensor({}) has just been constructed and holds one element
C17_Witness ==
    /\ call.op = "Tensor" /\ call.args = <<>> /\ call.outcome = "ok"
    /\ tensor.live /\ shape(tensor) = <<>>
    /\ tensor.data_ = <<0>>

\* C18: in Tensor(dims) the buffer resize happens only after product(dims)
\* has returned successfully, and a constructor that fails with overflow has
\* allocated no buffer (no resize ran, no object and no elements exist).
C18_OverflowBeforeAllocation ==
    call.op = "Tensor"
    => (/\ \A i \in DOMAIN call.steps :
              call.steps[i] = "resize"
              => (/\ \E j \in 1..(i - 1) : call.steps[j] = "product"
                  /\ product_size_t(call.args).outcome = "ok")
        /\ call.outcome = "length_error"
           => (/\ \A i \in DOMAIN call.steps : call.steps[i] # "resize"
               /\ ~tensor.live
               /\ tensor.data_ = <<>>))

\* a constructor call whose dims overflow has stopped at the product
C18_Witness ==
    /\ call.op = "Tensor" /\ call.outcome = "length_error"
    /\ ~Fits(call.args)
    /\ call.steps = <<"dims_", "product">>
    /\ tensor.data_ = <<>>

\* C19: backward called on a fresh layer, before any forward call on it, fails
\* with a sequencing error: it returns no gradient and leaves the layer as it
\* was.
C19_BackwardBeforeForwardFails ==
    [][(call'.op = "backward" /\ layer.fresh)
       => (/\ call'.outcome = "sequencing_error"
           /\ call'.ret = <<>>
           /\ layer' = layer)]_vars

\* a gradient of the right width was handed to a fresh layer and refused
C19_Witness ==
    /\ call.op = "backward" /\ call.outcome = "sequencing_error"
    /\ layer.fresh
    /\ Len(call.args) = layer.width

\* the edges of one training step
StepEdges ==
    {<<"Idle", "Forward">>, <<"Forward", "LossComputed">>,
     <<"LossComputed", "Backward">>, <<"Backward", "ParametersUpdated">>,
     <<"ParametersUpdated", "Idle">>}

\* C20: the training step Idle -> Forward -> LossComputed -> Backward ->
\* ParametersUpdated -> Idle is enforced: backward called in Idle fails, forward
\* called while an earlier forward is still unanswered by a backward or a
\* gradient reset fails, both leaving the step where it was, and the phase
\* only ever moves along an edge of the step or back to Idle by a gradient
\* reset.
C20_TrainingStepEnforced ==
    [][/\ (call'.op = "backward" /\ layer.phase = "Idle")
          => (/\ call'.outcome = "sequencing_error"
              /\ call'.ret = <<>>
              /\ layer' = layer)
       /\ (call'.op = "forward" /\ layer.cached.set)
          => (/\ call'.outcome = "sequencing_error"
              /\ call'.ret = <<>>
              /\ layer'.phase = layer.phase
              /\ layer'.cached = layer.cached
              /\ layer'.grad = layer.grad)
       /\ (layer'.phase # layer.phase)
          => (\/ <<layer.phase, layer'.phase>> \in StepEdges
              \/ (/\ layer'.phase = "Idle"
                  /\ layer'.grad = 0
                  /\ ~layer'.cached.set))]_vars

\* a second forward of the right width was refused after the loss was computed
C20_Witness ==
    /\ call.op = "forward" /\ call.outcome = "sequencing_error"
    /\ layer.phase = "LossComputed" /\ layer.cached.set
    /\ Len(call.args) = layer.width
    /\ layer.grad > 0

\* the layers' maps applied one after the other, first layer first
RECURSIVE Compose(_, _)
Compose(ls, x) ==
    IF ls = <<>> THEN x ELSE Compose(Tail(ls), Affine(Head(ls), x))

\* C21: predict(input) calls forward on the owned layers in insertion order,
\* each at most once and, when it succeeds, each exactly once; it feeds each
\* layer's output to the next and returns the last layer's output; it makes
\* no loss computation and no backward call (every step is a forward, and the
\* layers are left in Forward with their gradients untouched); the backward
\* pass over the same layers calls backward in the exact reverse order.
C21_PredictInInsertionOrder ==
    LET n == Len(model.layers)
    IN  /\ call.op = "predict"
           => (/\ Len(call.steps) <= n
               /\ \A k \in DOMAIN call.steps : call.steps[k] = <<"forward", k>>
               /\ call.outcome = "ok"
                  => (/\ Len(call.steps) = n
                      /\ call.ret = Compose(model.layers, call.args)
                      /\ \A i \in 1..n :
                            /\ model.layers[i].state.phase = "Forward"
                            /\ model.layers[i].state.grad = 0))
        /\ call.op = "backward_pass"
           => (/\ Len(call.steps) <= n
               /\ \A k \in DOMAIN call.steps :
                     call.steps[k] = <<"backward", n + 1 - k>>
               /\ call.outcome = "ok" => Len(call.steps) = n)

\* predict has run through two layers whose order matters for the result
C21_Witness ==
    /\ call.op = "predict" /\ call.outcome = "ok"
    /\ Len(model.layers) = 2
    /\ call.steps = <<(<<"forward", 1>>), (<<"forward", 2>>)>>
    /\ call.ret # Compose(<<model.layers[2], model.layers[1]>>, call.args)

\* C22: reshape(d') with a d' whose product exceeds SIZE_MAX fails with the
\* length error that product raises, not with the invalid-argument error of a
\* count mismatch, and leaves the tensor (dims_ and data_) as it was.
C22_ReshapeOverflowIsLengthError ==
    [][(call'.op = "reshape" /\ MathProduct(call'.args) > SizeMax)
       => (/\ call'.outcome = "length_error"
           /\ tensor' = tensor)]_vars

\* the refused shape's product, wrapped, equals the tensor's element count
C22_Witness ==
    /\ call.op = "reshape" /\ call.outcome = "length_error"
    /\ tensor.live
    /\ MathProduct(call.args) > SizeMax
    /\ MathProduct(call.args) % SizeMod = Len(tensor.data_)

\* element k of vec offends: it is negative, or the product of the elements
\* up to and including it exceeds SIZE_MAX
Offending(vec, k) ==
    vec[k] < 0 \/ MathProduct(SubSeq(vec, 1, k)) > SizeMax

\* C23: for product over signed int dimensions the first offending element,
\* scanning left to right, decides the outcome: invalid-argument if it is a
\* negative dimension, length error if the running product overflows at it;
\* no element after it has any influence.  Without an offending element the
\* product is returned.
C23_FirstOffenderDecides ==
    (call.op = "product_int" /\ call.outcome # "pending")
    => LET bad == {k \in DOMAIN call.args : Offending(call.args, k)}
       IN  IF bad = {}
           THEN call.outcome = "ok" /\ call.ret = <<MathProduct(call.args)>>
           ELSE LET first == CHOOSE k \in bad : \A j \in bad : k <= j
                IN  /\ call.ret = <<>>
                    /\ call.outcome = IF call.args[first] < 0
                                      THEN "invalid_argument"
                                      ELSE "length_error"

\* the running product overflowed before the negative dimension was met
C23_Witness ==
    /\ call.op = "product_int" /\ call.outcome = "length_error"
    /\ \E i \in DOMAIN call.args : call.args[i] < 0

\* the rearrangements of a sequence
Rearranged(s) ==
    {[i \in DOMAIN s |-> s[f[i]]] :
        f \in {g \in [DOMAIN s -> DOMAIN s] :
                  \A i, j \in DOMAIN s : g[i] = g[j] => i = j}}

\* what the caller of product sees for dims
Seen(dims) ==
    LET r == product_size_t(dims) IN <<r.outcome, RetOf(r)>>

\* C24 as stated: the outcome of product over unsigned dimensions is the same
\* for every permutation of the sequence, and every sequence that contains a
\* 0 returns 0.
C24_PermutationInvariant ==
    (call.op = "product_size_t" /\ call.outcome # "pending")
    => (/\ \A q \in Rearranged(call.args) :
              Seen(q) = <<call.outcome, call.ret>>
        /\ (\E i \in DOMAIN call.args : call.args[i] = 0)
           => (call.outcome = "ok" /\ call.ret = <<0>>))

\* C24 amended: the outcome of product over unsigned dimensions is the same
\* for every permutation of a sequence that contains no 0; a sequence that
\* contains a 0 returns 0 when the running product of the dimensions before
\* its first 0 does not overflow, and fails with the length error otherwise.
C24_PermutationInvariantNoZero ==
    (call.op = "product_size_t" /\ call.outcome # "pending")
    => LET zeros == {i \in DOMAIN call.args : call.args[i] = 0}
       IN  IF zeros = {}
           THEN \A q \in Rearranged(call.args) :
                   Seen(q) = <<call.outcome, call.ret>>
           ELSE LET z == CHOOSE i \in zeros : \A j \in zeros : i <= j
                IN  IF Fits(SubSeq(call.args, 1, z - 1))
                    THEN call.outcome = "ok" /\ call.ret = <<0>>
                    ELSE call.outcome = "length_error" /\ call.ret = <<>>

\* a sequence holding a 0 was refused: the dimensions before the 0 overflow
C24_Witness ==
    /\ call.op = "product_size_t" /\ call.outcome = "length_error"
    /\ \E i \in DOMAIN call.args : call.args[i] = 0
    /\ Seen(<<0>> \o call.args) = <<"ok", <<0>>>>

\* C25: multiply(int a, int b) raises no spurious overflow: whenever the
\* mathematical product a*b lies within [INT_MIN, INT_MAX], negative operands
\* included, the call returns a*b.
C25_NoSpuriousOverflow ==
    (/\ call.op = "multiply_int" /\ call.outcome # "pending"
     /\ call.args[1] * call.args[2] \in Int_)
    => (call.outcome = "ok" /\ call.ret = <<call.args[1] * call.args[2]>>)

\* C26: for a tensor of shape d and a shape d2 of equal product (the value
\* util::product has for d2), reshape(d2) followed by reshape(d) succeeds
\* both times and restores the original state: shape() is d again and data_
\* has the same length and contents; reshape(d) on a tensor of shape d leaves
\* the tensor as it was.
C26_ReshapeRoundTrip ==
    call.op = "round_trip"
    => LET d == call.args[1]
           d2 == call.args[2]
           original == call.ret[1]
       IN  /\ (Fits(d2) /\ MathProduct(d2) = MathProduct(d))
              => (/\ \A k \in DOMAIN call.steps : call.steps[k] = "ok"
                  /\ Len(call.steps) = 1
                     => (shape(tensor) = d2 /\ tensor.data_ = original.data_)
                  /\ Len(call.steps) = 2
                     => (/\ call.outcome = "ok"
                         /\ shape(tensor) = d
                         /\ tensor = original))
           /\ (d2 = d /\ Len(call.steps) >= 1)
              => (call.steps[1] = "ok" /\ tensor = original)

\* a tensor of several elements went to a different shape and came back
C26_Witness ==
    /\ call.op = "round_trip" /\ call.outcome = "ok"
    /\ Len(call.steps) = 2
    /\ call.args[1] # call.args[2]
    /\ Len(call.args[1]) # Len(call.args[2])
    /\ Len(tensor.data_) > 1
    /\ tensor = call.ret[1]

====
